---------------------------- MODULE Spec2Model ----------------------------
(***************************************************************************)
(* sale_triple_discount: the sale order line with three discounts.         *)
(*                                                                         *)
(* Source: src/sale_triple_discount/models/sale_order_line.py              *)
(*                                                                         *)
(* Numbers.  The discounts are Python floats.  The model computes them as  *)
(* exact rationals <<numerator, denominator>> in lowest terms, so that a   *)
(* result such as 27.1 or 87.5 is the number the formula denotes; the      *)
(* last-bit rounding of IEEE doubles is not modelled.                      *)
(*                                                                         *)
(* Field values.  The model keeps one value per field of a line: the value *)
(* a read line[fname] yields.  line._cache.update and line.update both set *)
(* that value; invalidate_recordset drops nothing a later read depends on  *)
(* (the docstring of triple_discount_preprocess relies on a repeated call  *)
(* reading the fields the first call has reset).                           *)
(***************************************************************************)
EXTENDS Integers, Sequences, FiniteSets

VARIABLES
    lines,   \* the order lines: id -> record of fields
    self,    \* the recordset the methods are called on
    snaps,   \* the prev_values dictionaries returned and still held by callers
    pc,      \* position of the running _compute_amount: "idle", "host", "post"
    cur,     \* locals of the running _compute_amount
    last,    \* the last completed call and what it returned or raised
    nested,  \* history: the calls since the oldest held snapshot nest properly
    calls    \* number of calls made so far

vars == <<lines, self, snaps, pc, cur, last, nested, calls>>

---------------------------------------------------------------------------
(* Bounds of the model *)

MaxLen == 2      \* longest recordset a method is called on
MaxSnaps == 2    \* most prev_values dictionaries held at once
MaxCalls == 4    \* calls made in one run of the model

---------------------------------------------------------------------------
(* Exact rational arithmetic *)

Abs(x) == IF x < 0 THEN 0 - x ELSE x

RECURSIVE GCD(_, _)
GCD(a, b) == IF b = 0 THEN a ELSE GCD(b, a % b)

\* n/d in lowest terms, d > 0
Norm(n, d) == LET g == GCD(Abs(n), d) IN <<n \div g, d \div g>>

Rat(n) == <<n, 1>>
RAdd(x, y) == Norm(x[1] * y[2] + y[1] * x[2], x[2] * y[2])
RSub(x, y) == Norm(x[1] * y[2] - y[1] * x[2], x[2] * y[2])
RMul(x, y) == Norm(x[1] * y[1], x[2] * y[2])
RDivInt(x, k) == Norm(x[1], x[2] * k)
RLeq(x, y) == x[1] * y[2] <= y[1] * x[2]
RLt(x, y) == x[1] * y[2] < y[1] * x[2]

\* A field that holds no number (False): no rational has denominator 0.
Unset == <<0, 0>>

---------------------------------------------------------------------------
(* The model: fields of sale.order.line *)

Line == {"so1", "so2"}

LineName == [l \in Line |-> IF l = "so1" THEN "Desk" ELSE "Chair"]

\* selection of discounting_type (line 25), and a value outside it
KnownTypes == {"additive", "multiplicative"}
AllTypes == KnownTypes \cup {"fixed"}

_discount_fields == <<"discount", "discount2", "discount3">>

\* Python: self[x] or 0.0
OrZero(v) == IF v = Unset \/ v = Rat(0) THEN Rat(0) ELSE v

RECURSIVE SumFields(_, _)
SumFields(line, i) ==
    IF i = 0 THEN Rat(0)
    ELSE RAdd(SumFields(line, i - 1), OrZero(line[_discount_fields[i]]))

\* faulty variant: the sum is not capped at 100
_additive_discount_uncapped(line) ==
    LET discount == SumFields(line, Len(_discount_fields))
    IN  IF RLeq(discount, Rat(0)) THEN Rat(0) ELSE discount

_additive_discount(line) ==
    LET discount == SumFields(line, Len(_discount_fields))
    IN  IF RLeq(discount, Rat(0)) THEN Rat(0)
        ELSE IF RLeq(Rat(100), discount) THEN Rat(100)
        ELSE discount

\* discounts = [1 - (self[x] or 0.0) / 100 ...]
Retention(v) == RSub(Rat(1), RDivInt(OrZero(v), 100))

RECURSIVE ProductFields(_, _)
ProductFields(line, i) ==
    IF i = 0 THEN Rat(1)
    ELSE RMul(ProductFields(line, i - 1), Retention(line[_discount_fields[i]]))

\* faulty variant: the product is clamped like the sum
_multiplicative_discount_clamped(line) ==
    LET final_discount == ProductFields(line, Len(_discount_fields))
        discount == RSub(Rat(100), RMul(final_discount, Rat(100)))
    IN  IF RLeq(discount, Rat(0)) THEN Rat(0)
        ELSE IF RLeq(Rat(100), discount) THEN Rat(100)
        ELSE discount

_multiplicative_discount(line) ==
    LET final_discount == ProductFields(line, Len(_discount_fields))
    IN  RSub(Rat(100), RMul(final_discount, Rat(100)))

\* The message of the unknown-type error: the placeholders of the template
\* (line 42) and the mapping it is formatted with (line 43).
MsgPlaceholders == <<"name", "dic_type">>
MsgArgs(line) == [name |-> line.name, disc_type |-> line.discounting_type]

\* template % mapping: a placeholder the mapping lacks raises KeyError before
\* the exception object is built.
Returned(v) == [kind |-> "return", value |-> v, msg |-> <<>>]
Raised(k, m) == [kind |-> k, value |-> Unset, msg |-> m]

FormatError(placeholders, args) ==
    LET missing == {i \in DOMAIN placeholders : placeholders[i] \notin DOMAIN args}
    IN  IF missing # {}
        THEN LET first == CHOOSE i \in missing : \A j \in missing : i <= j
             IN  Raised("KeyError", <<placeholders[first]>>)
        ELSE Raised("ValidationError",
                    [i \in DOMAIN placeholders |-> args[placeholders[i]]])

_get_final_discount(line) ==
    IF line.discounting_type = "additive"
    THEN Returned(_additive_discount(line))
    ELSE IF line.discounting_type = "multiplicative"
    THEN Returned(_multiplicative_discount(line))
    ELSE FormatError(MsgPlaceholders, MsgArgs(line))

---------------------------------------------------------------------------
(* Recordsets and the prev_values dictionary *)

\* A recordset is the tuple of ids it iterates over; + keeps duplicates.
RecordSets == UNION {[1..n -> Line] : n \in 0..MaxLen}

NoDup(rs) == \A i, j \in DOMAIN rs : rs[i] = rs[j] => i = j
Records(rs) == {rs[i] : i \in DOMAIN rs}

\* {fname: line[fname] for fname in self._discount_fields()}
Fields(line) ==
    [f \in {_discount_fields[i] : i \in DOMAIN _discount_fields} |-> line[f]]

AllFields(ls) == [l \in Line |-> Fields(ls[l])]

\* A Python dict: its keys in insertion order and their values.
EmptyDict == [order |-> <<>>, val |-> <<>>]

DictSet(d, k, v) ==
    [order |-> IF k \in DOMAIN d.val THEN d.order ELSE Append(d.order, k),
     val |-> [x \in DOMAIN d.val \cup {k} |-> IF x = k THEN v ELSE d.val[x]]]

\* line._cache.update(vals) and line.update(vals): the fields of vals are set
Update(ls, line, vals) ==
    [ls EXCEPT ![line] =
        [f \in DOMAIN @ |-> IF f \in DOMAIN vals THEN vals[f] ELSE @[f]]]

\* self.invalidate_recordset(self._discount_fields())
invalidate_recordset(ls, rs) == ls

\* faulty variant: discount3 is not reset
PreprocessValsKeepThird(final) ==
    [discount |-> final, discount2 |-> Rat(0)]

\* vals = {fname: 0 ...}; vals["discount"] = line._get_final_discount()
PreprocessVals(final) ==
    [discount |-> final, discount2 |-> Rat(0), discount3 |-> Rat(0)]

\* faulty variant: the fields are saved after the cache is updated
RECURSIVE PreprocessLoopSaveAfter(_, _, _, _)
PreprocessLoopSaveAfter(ls, prev_values, rs, i) ==
    IF i > Len(rs)
    THEN [lines |-> ls, prev_values |-> prev_values, result |-> Returned(Unset)]
    ELSE LET line == rs[i]
             final == _get_final_discount(ls[line])
         IN  IF final.kind # "return"
             THEN [lines |-> ls, prev_values |-> prev_values, result |-> final]
             ELSE LET updated == Update(ls, line,
                                        [discount |-> final.value,
                                         discount2 |-> Rat(0),
                                         discount3 |-> Rat(0)])
                  IN  PreprocessLoopSaveAfter(
                          updated,
                          DictSet(prev_values, line, Fields(updated[line])),
                          rs, i + 1)

\* The loop of triple_discount_preprocess from the i-th record on.  An error
\* of _get_final_discount leaves the loop where it is.
RECURSIVE PreprocessLoop(_, _, _, _)
PreprocessLoop(ls, prev_values, rs, i) ==
    IF i > Len(rs)
    THEN [lines |-> ls, prev_values |-> prev_values, result |-> Returned(Unset)]
    ELSE LET line == rs[i]
             saved == DictSet(prev_values, line, Fields(ls[line]))
             final == _get_final_discount(ls[line])
         IN  IF final.kind # "return"
             THEN [lines |-> ls, prev_values |-> saved, result |-> final]
             ELSE PreprocessLoop(Update(ls, line, PreprocessVals(final.value)),
                                 saved, rs, i + 1)

\* faulty variant: the final discount is computed after discount2 and discount3 are
\* reset
RECURSIVE PreprocessLoopResetFirst(_, _, _, _)
PreprocessLoopResetFirst(ls, prev_values, rs, i) ==
    IF i > Len(rs)
    THEN [lines |-> ls, prev_values |-> prev_values, result |-> Returned(Unset)]
    ELSE LET line == rs[i]
             saved == DictSet(prev_values, line, Fields(ls[line]))
             reset == Update(ls, line,
                             [discount2 |-> Rat(0), discount3 |-> Rat(0)])
             final == _get_final_discount(reset[line])
         IN  IF final.kind # "return"
             THEN [lines |-> ls, prev_values |-> saved, result |-> final]
             ELSE PreprocessLoopResetFirst(
                      Update(reset, line, [discount |-> final.value]),
                      saved, rs, i + 1)

triple_discount_preprocess_reset_first(ls, rs) ==
    PreprocessLoopResetFirst(ls, EmptyDict, rs, 1)

triple_discount_preprocess(ls, rs) ==
    PreprocessLoop(invalidate_recordset(ls, rs), EmptyDict, rs, 1)

\* for line, prev_vals_dict in list(prev_values.items()): line.update(...)
RECURSIVE PostprocessLoop(_, _, _)
PostprocessLoop(ls, prev_values, i) ==
    IF i > Len(prev_values.order)
    THEN ls
    ELSE LET line == prev_values.order[i]
         IN  PostprocessLoop(Update(ls, line, prev_values.val[line]),
                             prev_values, i + 1)

\* faulty variant: the first line of the dictionary is not restored
triple_discount_postprocess_skip_first(ls, prev_values) ==
    PostprocessLoop(ls, prev_values, 2)

triple_discount_postprocess(ls, prev_values) ==
    PostprocessLoop(invalidate_recordset(ls, <<>>), prev_values, 1)

\* faulty variant: discount2 is copied into both keys
_prepare_invoice_line_same(line, res) ==
    LET upd == [discount2 |-> line.discount2, discount3 |-> line.discount2]
    IN  [k \in DOMAIN res \cup DOMAIN upd |->
            IF k \in DOMAIN upd THEN upd[k] ELSE res[k]]

\* res.update({"discount2": self.discount2, "discount3": self.discount3})
_prepare_invoice_line(line, res) ==
    LET upd == [discount2 |-> line.discount2, discount3 |-> line.discount3]
    IN  [k \in DOMAIN res \cup DOMAIN upd |->
            IF k \in DOMAIN upd THEN upd[k] ELSE res[k]]

---------------------------------------------------------------------------
(* The values the checks draw the fields from (percentages) *)

\* discount: the host keeps it in 0..100
MainDiscounts == {0, 50}
\* discount2, discount3: at most 100 (_sql_constraints), no lower bound
SecondDiscounts == {0 - 50, 50}
ThirdDiscounts == {10}

\* the wider ranges of the checks of the single-line methods
MainDiscountsFn == {0, 10, 50, 100}
ExtraDiscountsFn == {0 - 150, 0 - 50, 0, 10, 50, 100}

NewLine(l, d1, d2, d3, t) ==
    [name |-> LineName[l], discount |-> d1, discount2 |-> d2, discount3 |-> d3,
     discounting_type |-> t]

\* The record of a call.  pre: the fields before it.  before: for a
\* postprocess, the fields before the preprocess that returned its dictionary;
\* for a preprocess, the fields before the first of the preprocess calls it
\* directly follows.  restored: the depths of the dictionaries the postprocess
\* calls in a row have restored; base: the fields before the outermost of them.
NoCall ==
    [op |-> "none", pre |-> <<>>, before |-> <<>>, result |-> Returned(Unset),
     prev_values |-> EmptyDict, repeated |-> FALSE, paired |-> FALSE,
     lifo |-> FALSE, proper |-> FALSE, restored |-> <<>>, base |-> <<>>,
     host |-> <<>>, mapping |-> <<>>]

NoLocals == [prev_values |-> EmptyDict, pre |-> <<>>]

Rats(S) == {Rat(n) : n \in S}

LineValues(l, D1, D2, D3, T) ==
    {NewLine(l, d1, d2, d3, t) : d1 \in D1, d2 \in D2, d3 \in D3, t \in T}

Init ==
    /\ \E a \in LineValues("so1", Rats(MainDiscounts), Rats(SecondDiscounts),
                           Rats(ThirdDiscounts), AllTypes),
          b \in LineValues("so2", Rats(MainDiscounts), Rats(SecondDiscounts),
                           Rats(ThirdDiscounts), AllTypes) :
          lines = [l \in Line |-> IF l = "so1" THEN a ELSE b]
    /\ self \in RecordSets
    /\ snaps = <<>>
    /\ pc = "idle"
    /\ cur = NoLocals
    /\ last = NoCall
    /\ nested = TRUE
    /\ calls = 0

---------------------------------------------------------------------------
(* The calls *)

Call(op, pre, result) ==
    [NoCall EXCEPT !.op = op, !.pre = pre, !.before = pre, !.result = result]

Succeeded(c) == c.result.kind = "return"

\* A caller's self.triple_discount_preprocess(); it keeps the dictionary.
Preprocess ==
    \E r \in {triple_discount_preprocess(lines, self)} :
    /\ pc = "idle"
    /\ calls < MaxCalls
    /\ calls' = calls + 1
    /\ lines' = r.lines
    /\ IF r.result.kind = "return"
       THEN /\ Len(snaps) < MaxSnaps
            /\ snaps' = Append(snaps, [prev_values |-> r.prev_values,
                                       before |-> AllFields(lines),
                                       depth |-> Len(snaps) + 1])
            /\ nested' = (snaps = <<>> \/ nested)
            /\ \E again \in {last.op = "preprocess" /\ Succeeded(last)} :
               last' = [Call("preprocess", AllFields(lines), r.result)
                          EXCEPT !.prev_values = r.prev_values,
                                 !.repeated = again,
                                 !.before = IF again THEN last.before ELSE @]
       ELSE /\ snaps' = snaps
            /\ nested' = (snaps = <<>> \/ (nested /\ r.lines = lines))
            /\ last' = Call("preprocess", AllFields(lines), r.result)
    /\ UNCHANGED <<self, pc, cur>>

\* A caller's triple_discount_postprocess(prev_values) with a dictionary it
\* holds; the dictionary is dropped afterwards.
Postprocess(i) ==
    /\ pc = "idle"
    /\ i \in DOMAIN snaps
    /\ calls < MaxCalls
    /\ calls' = calls + 1
    /\ lines' = triple_discount_postprocess(lines, snaps[i].prev_values)
    /\ snaps' = [k \in 1..(Len(snaps) - 1) |->
                    IF k < i THEN snaps[k] ELSE snaps[k + 1]]
    /\ nested' = (Len(snaps) = 1 \/ (nested /\ i = Len(snaps)))
    /\ \E row \in {last.op = "postprocess"} :
       last' = [Call("postprocess", AllFields(lines), Returned(Unset))
                  EXCEPT !.before = snaps[i].before,
                         !.prev_values = snaps[i].prev_values,
                         !.paired = /\ last.op = "preprocess"
                                    /\ Succeeded(last)
                                    /\ i = Len(snaps),
                         !.proper = IF row THEN last.proper ELSE nested,
                         !.lifo = nested /\ i = Len(snaps),
                         !.restored = IF row
                                      THEN Append(last.restored, snaps[i].depth)
                                      ELSE <<snaps[i].depth>>,
                         !.base = IF row /\ \E k \in DOMAIN last.restored :
                                               last.restored[k] < snaps[i].depth
                                  THEN last.base ELSE snaps[i].before]
    /\ UNCHANGED <<self, pc, cur>>

\* _compute_amount, up to the call of the host: prev_values =
\* self.triple_discount_preprocess().  An error ends the call.
ComputeAmountPreprocess ==
    \E r \in {triple_discount_preprocess(lines, self)} :
    /\ pc = "idle"
    /\ calls < MaxCalls
    /\ calls' = calls + 1
    /\ lines' = r.lines
    /\ IF r.result.kind = "return"
       THEN /\ pc' = "host"
            /\ cur' = [prev_values |-> r.prev_values, pre |-> AllFields(lines)]
            /\ last' = [NoCall EXCEPT !.op = "running"]
            /\ UNCHANGED nested
       ELSE /\ last' = Call("_compute_amount", AllFields(lines), r.result)
            /\ nested' = (snaps = <<>> \/ (nested /\ r.lines = lines))
            /\ UNCHANGED <<pc, cur>>
    /\ UNCHANGED <<self, snaps>>

\* res = super()._compute_amount(): the host reads the fields as they are.
ComputeAmountHost ==
    /\ pc = "host"
    /\ pc' = "post"
    /\ UNCHANGED <<lines, self, snaps, cur, last, nested, calls>>

\* self.triple_discount_postprocess(prev_values); return res
ComputeAmountPostprocess ==
    /\ pc = "post"
    /\ lines' = triple_discount_postprocess(lines, cur.prev_values)
    /\ pc' = "idle"
    /\ cur' = NoLocals
    /\ last' = [Call("_compute_amount", cur.pre, Returned(Unset))
                  EXCEPT !.prev_values = cur.prev_values]
    /\ nested' = (snaps = <<>> \/ (nested /\ NoDup(self)))
    /\ UNCHANGED <<self, snaps, calls>>

Next ==
    \/ Preprocess
    \/ \E i \in 1..MaxSnaps : Postprocess(i)
    \/ ComputeAmountPreprocess
    \/ ComputeAmountHost
    \/ ComputeAmountPostprocess

Spec == Init /\ [][Next]_vars

---------------------------------------------------------------------------
(* The single-line methods, called on one line with fields of a wider range *)

FieldValuesFn(S) == Rats(S) \cup {Unset}

\* what the host's _prepare_invoice_line returns for the line
HostInvoiceLines(line) ==
    {[name |-> line.name, discount |-> line.discount, quantity |-> Rat(q)] :
        q \in {1, 3}}
    \cup {[name |-> line.name, discount |-> line.discount, discount2 |-> Rat(7)]}

InitFn ==
    /\ \E a \in LineValues("so1", FieldValuesFn(MainDiscountsFn),
                           FieldValuesFn(ExtraDiscountsFn),
                           FieldValuesFn(ExtraDiscountsFn), AllTypes) :
          lines = [l \in Line |-> IF l = "so1" THEN a
                                  ELSE NewLine(l, Rat(0), Rat(0), Rat(0),
                                               "multiplicative")]
    /\ self \in {<<l>> : l \in Line}
    /\ snaps = <<>>
    /\ pc = "idle"
    /\ cur = NoLocals
    /\ last = NoCall
    /\ nested = TRUE
    /\ calls = 0

\* self._get_final_discount() on the one line of self
GetFinalDiscount ==
    /\ last' = Call("_get_final_discount", AllFields(lines),
                    _get_final_discount(lines[self[1]]))
    /\ UNCHANGED <<lines, self, snaps, pc, cur, nested, calls>>

\* self._prepare_invoice_line(): res is what super() returns
PrepareInvoiceLine(res) ==
    /\ last' = [Call("_prepare_invoice_line", AllFields(lines), Returned(Unset))
                  EXCEPT !.host = res,
                         !.mapping = _prepare_invoice_line(lines[self[1]], res)]
    /\ UNCHANGED <<lines, self, snaps, pc, cur, nested, calls>>

NextFn ==
    \/ GetFinalDiscount
    \/ \E res \in HostInvoiceLines(lines[self[1]]) : PrepareInvoiceLine(res)

SpecFn == InitFn /\ [][NextFn]_vars

---------------------------------------------------------------------------
(* What the specification says the combined discount is *)

\* an unset field counts as 0
Val(v) == IF v = Unset THEN Rat(0) ELSE v

Clamp(x) ==
    IF RLeq(x, Rat(0)) THEN Rat(0)
    ELSE IF RLeq(Rat(100), x) THEN Rat(100)
    ELSE x

\* clamp(d1 + d2 + d3, 0, 100)
AdditiveExpected(f) ==
    Clamp(RAdd(Val(f.discount), RAdd(Val(f.discount2), Val(f.discount3))))

\* 100 - 100 * (1 - d1/100) * (1 - d2/100) * (1 - d3/100) for whole
\* percentages, in units of 1/10000: 1000000 - (100 - d1)(100 - d2)(100 - d3)
MultiplicativeScaled(f) ==
    (100 * 100 * 100) - (100 - Val(f.discount)[1]) * (100 - Val(f.discount2)[1])
                        * (100 - Val(f.discount3)[1])

WholePercentages(f) ==
    \A k \in DOMAIN f : Val(f[k])[2] = 1

\* the same product for any rational fields
MultiplicativeExpected(f) ==
    LET keep(v) == RSub(Rat(1), RDivInt(Val(v), 100))
    IN  RSub(Rat(100),
             RMul(Rat(100), RMul(keep(f.discount),
                                 RMul(keep(f.discount2), keep(f.discount3)))))

\* the combined discount of fields f under a known discounting type t
Combined(f, t) ==
    IF t = "additive" THEN AdditiveExpected(f) ELSE MultiplicativeExpected(f)

TheLine == lines[self[1]]
Within0To100(v) == RLeq(Rat(0), v) /\ RLeq(v, Rat(100))

---------------------------------------------------------------------------
(* Claims *)

\* C1 as stated: postprocess with the dictionary the preceding preprocess
\* returned, and a complete _compute_amount, leave discount, discount2 and
\* discount3 of every line as they were before, for any recordset.
C1_RoundTripAnyRecordset ==
    (\/ last.op = "postprocess" /\ last.paired
     \/ last.op = "_compute_amount" /\ Succeeded(last))
    => AllFields(lines) = last.before

\* C1 amended: the round trip holds for every recordset in which no line
\* occurs twice, whatever its length and order.
C1_RoundTripDistinctLines ==
    (/\ NoDup(self)
     /\ \/ last.op = "postprocess" /\ last.paired
        \/ last.op = "_compute_amount" /\ Succeeded(last))
    => AllFields(lines) = last.before

\* C1 witness: a postprocess has restored two lines that the preceding
\* preprocess had changed, the second line of the order iterated first.
C1_Witness ==
    /\ last.op = "postprocess" /\ last.paired
    /\ self = <<"so2", "so1">>
    /\ \A l \in Line : last.pre[l] # last.before[l]
    /\ AllFields(lines) = last.before

\* C2 as stated: the discount _get_final_discount returns lies in [0, 100]
\* in both modes, for fields within the enforced constraints.
C2_FinalDiscountWithin0To100 ==
    (/\ last.op = "_get_final_discount" /\ Succeeded(last)
     /\ \A k \in DOMAIN Fields(TheLine) : TheLine[k] # Unset
     /\ Within0To100(TheLine.discount)
     /\ RLeq(TheLine.discount2, Rat(100)) /\ RLeq(TheLine.discount3, Rat(100)))
    => Within0To100(last.result.value)

\* C3 as stated: a preprocess that fails on an unknown discounting type
\* leaves discount, discount2 and discount3 of every line as before the call.
C3_FailedPreprocessMutatesNothing ==
    (last.op = "preprocess" /\ ~Succeeded(last))
    => AllFields(lines) = last.pre

\* C4 as stated: on an unknown discounting type _get_final_discount raises
\* ValidationError with the line's name and the type in the message.
C4_UnknownTypeRaisesValidationError ==
    (last.op = "_get_final_discount" /\ TheLine.discounting_type \notin KnownTypes)
    => /\ last.result.kind = "ValidationError"
       /\ last.result.msg = <<TheLine.name, TheLine.discounting_type>>

C6_AdditiveIsClampedSum ==
    (last.op = "_get_final_discount" /\ TheLine.discounting_type = "additive")
    => last.result = Returned(AdditiveExpected(Fields(TheLine)))

\* C6 witness: an additive result strictly between the clamps, with a field
\* unset.
C6_Witness ==
    /\ last.op = "_get_final_discount"
    /\ TheLine.discounting_type = "additive"
    /\ TheLine.discount2 = Unset
    /\ RLt(Rat(0), last.result.value) /\ RLt(last.result.value, Rat(100))

\* C7: in multiplicative mode _get_final_discount returns
\* 100 - 100 (1 - d1/100)(1 - d2/100)(1 - d3/100), unclamped, an unset field
\* counted as 0.
C7_MultiplicativeIsProduct ==
    (last.op = "_get_final_discount"
        /\ TheLine.discounting_type = "multiplicative")
    => /\ Succeeded(last)
       /\ WholePercentages(Fields(TheLine))
       /\ last.result.value = Norm(MultiplicativeScaled(Fields(TheLine)),
                                   100 * 100)

\* C7 witness: a multiplicative result below 0, from a negative discount2.
C7_Witness ==
    /\ last.op = "_get_final_discount"
    /\ TheLine.discounting_type = "multiplicative"
    /\ TheLine.discount3 = Unset
    /\ RLt(last.result.value, Rat(0))

\* C8: _prepare_invoice_line returns the host's mapping with discount2 and
\* discount3 set to the line's stored values, every other key as the host
\* returned it, whatever the discounting type.
C8_InvoiceLineCopiesRawDiscounts ==
    last.op = "_prepare_invoice_line"
    => /\ DOMAIN last.mapping = DOMAIN last.host \cup {"discount2", "discount3"}
       /\ last.mapping.discount2 = TheLine.discount2
       /\ last.mapping.discount3 = TheLine.discount3
       /\ \A k \in DOMAIN last.host \ {"discount2", "discount3"} :
             last.mapping[k] = last.host[k]

\* C8 witness: an additive line with two different extra discounts, invoiced
\* from a host mapping that has a quantity.
C8_Witness ==
    /\ last.op = "_prepare_invoice_line"
    /\ TheLine.discounting_type = "additive"
    /\ TheLine.discount2 = Rat(50) /\ TheLine.discount3 = Rat(10)
    /\ "quantity" \in DOMAIN last.host
    /\ last.mapping.discount2 = Rat(50)

\* C9: while the host computes the amounts, every line of the recordset has
\* discount2 = discount3 = 0 and discount the combined discount of the fields
\* it had when _compute_amount was called.
C9_HostSeesCombinedDiscount ==
    pc = "host"
    => \A l \in Records(self) :
          /\ lines[l].discount = Combined(cur.pre[l], lines[l].discounting_type)
          /\ lines[l].discount2 = Rat(0)
          /\ lines[l].discount3 = Rat(0)

\* C9 witness: the host runs on two lines whose fields preprocess changed.
C9_Witness ==
    /\ pc = "host"
    /\ Len(self) = 2 /\ Records(self) = Line
    /\ \A l \in Line : Fields(lines[l]) # cur.pre[l]

\* After any postprocess the lines of the dictionary hold its content.
RestoredLast ==
    last.op = "postprocess"
    => \A l \in DOMAIN last.prev_values.val :
          Fields(lines[l]) = last.prev_values.val[l]

\* Restoring the outer dictionary of two nested ones first and the inner one
\* second ends with the combined discount and the zeroes.
OuterThenInner ==
    (last.op = "postprocess" /\ last.proper /\ last.restored = <<1, 2>>)
    => \A l \in Records(self) :
          Fields(lines[l]) =
              [discount |-> Combined(last.base[l], lines[l].discounting_type),
               discount2 |-> Rat(0), discount3 |-> Rat(0)]

===========================================================================
